---------------------------- MODULE Spec2Model ----------------------------
(***************************************************************************)
(* Model of the two scripts of the Jira KPI repository:                    *)
(*   jira_sprint_kpi.py           the sprint KPI reporter (main)           *)
(*   detect_story_points_field.py the story-points field detector          *)
(* One run executes one of the two programs (variable prog).  JSON values  *)
(* are tagged records; story points and day counts are integers (story     *)
(* points in whole points, on which float addition is exact; cycle times   *)
(* and percentages in tenths, the unit round(x, 1) produces).              *)
(***************************************************************************)
EXTENDS Integers, Sequences, FiniteSets, TLC

VARIABLES
    prog,       \* which script runs: "kpi" or "detect"
    env,        \* the four environment settings read at import time
    pc,         \* position of the reporter's main()
    exitStatus, \* process exit status once the run has ended, else -1
    known,      \* has the server's sprint been observed (first response)?
    sprint,     \* the issues the server holds for the sprint, in server order
    serverCap,  \* the largest page the server returns for one request
    start_at,   \* fetch_issues_for_sprint: start_at
    total,      \* fetch_issues_for_sprint: total of the last response
    issues,     \* fetch_issues_for_sprint: issues
    requests,   \* the startAt value of every GET sent, in order
    failed,     \* did a GET raise (raise_for_status)?
    metrics,    \* compute_metrics: the buckets, in insertion order
    processed,  \* compute_metrics: number of issues the loop has handled
    locals,     \* compute_metrics: the loop's locals for the last issue handled
    sprint_totals, \* write_csv: the result of compute_sprint_totals
    csv,        \* the output file: exists, assignee rows, summary rows
    dpc,        \* position of detect_story_points_field
    dargs,      \* detector arguments: sprint_id and issue_key
    sample,     \* detector: fields of the sample issue
    all_fields, \* detector: the field metadata received
    drequests,  \* detector: the GETs sent, in order
    dfailed,    \* detector: did a GET raise?
    dresult     \* detector: the returned value

kpiVars == <<env, pc, exitStatus, known, sprint, serverCap, start_at, total,
             issues, requests, failed, metrics, processed, locals,
             sprint_totals, csv>>
detVars == <<dpc, dargs, sample, all_fields, drequests, dfailed, dresult>>
vars == <<prog, env, pc, exitStatus, known, sprint, serverCap, start_at, total,
          issues, requests, failed, metrics, processed, locals,
          sprint_totals, csv,
          dpc, dargs, sample, all_fields, drequests, dfailed, dresult>>

----------------------------------------------------------------------------
(* Bounds of the model. *)

\* Longest sprint whose issues are drawn freely from IssuePool.
MaxIssues == 3
\* Long sprints hold p * max_results + d issues, p in 1..MaxPages, d in -1..1.
MaxPages == 2
\* Longest field-metadata list the detector receives.
MaxMeta == 2

----------------------------------------------------------------------------
(* Strings: str.lower, substring test, prefix test, code-point order. *)

\* The characters used, in code-point (ASCII) order.
CodeChars == " +-.0123456789:@ABCDEFGHIJKLMNOPQRSTUVWXYZ_abcdefghijklmnopqrstuvwxyz"
UpperChars == "ABCDEFGHIJKLMNOPQRSTUVWXYZ"
LowerChars == "abcdefghijklmnopqrstuvwxyz"

CharAt(s, i) == SubSeq(s, i, i)

IndexIn(c, alphabet) ==
    IF \E i \in 1..Len(alphabet) : CharAt(alphabet, i) = c
    THEN CHOOSE i \in 1..Len(alphabet) : CharAt(alphabet, i) = c
    ELSE 0

Code(c) == IndexIn(c, CodeChars)

LowerChar(c) ==
    IF IndexIn(c, UpperChars) > 0 THEN CharAt(LowerChars, IndexIn(c, UpperChars)) ELSE c

RECURSIVE Lower(_)
Lower(s) ==
    IF Len(s) = 0 THEN ""
    ELSE LowerChar(CharAt(s, 1)) \o Lower(SubSeq(s, 2, Len(s)))

\* Python: p in s
Contains(s, p) ==
    \E i \in 1..(Len(s) - Len(p) + 1) : SubSeq(s, i, i + Len(p) - 1) = p

\* Python: s.startswith(p)
StartsWith(s, p) == Len(s) >= Len(p) /\ SubSeq(s, 1, Len(p)) = p

\* Python: a < b on str (code-point lexicographic order)
RECURSIVE StrLess(_, _)
StrLess(a, b) ==
    IF Len(b) = 0 THEN FALSE
    ELSE IF Len(a) = 0 THEN TRUE
    ELSE IF CharAt(a, 1) # CharAt(b, 1) THEN Code(CharAt(a, 1)) < Code(CharAt(b, 1))
    ELSE StrLess(SubSeq(a, 2, Len(a)), SubSeq(b, 2, Len(b)))

----------------------------------------------------------------------------
(* Numbers. *)

Min(a, b) == IF a < b THEN a ELSE b
Max(a, b) == IF a > b THEN a ELSE b

RECURSIVE SumSeq(_)
SumSeq(s) == IF Len(s) = 0 THEN 0 ELSE Head(s) + SumSeq(Tail(s))

\* Python round(), applied to the exact quotient n / d (d > 0): the nearest
\* integer, a tie going to the even neighbour.
RoundHalfEven(n, d) ==
    LET q == n \div d
        r == n % d
    IN  IF 2 * r < d THEN q
        ELSE IF 2 * r > d THEN q + 1
        ELSE IF q % 2 = 0 THEN q ELSE q + 1

----------------------------------------------------------------------------
(* JSON values as the scripts see them after resp.json(). *)

Null == [t |-> "null"]            \* a missing key or a JSON null: dict.get gives None
Str(s) == [t |-> "str", v |-> s]  \* a JSON string
Num(n) == [t |-> "num", v |-> n]  \* a JSON number
\* A JSON string holding an ISO-8601 timestamp: wall-clock time in hours since
\* a fixed midnight, followed by the zone suffix "Z", "+HH:MM", "-HH:MM" or none.
Iso(wall, zone) == [t |-> "iso", wall |-> wall, zone |-> zone]
\* The assignee object of an issue.
User(displayName, emailAddress) ==
    [t |-> "obj", displayName |-> displayName, emailAddress |-> emailAddress]

\* Python truthiness of a value: None, "", 0 are falsy.
Truthy(x) ==
    CASE x.t = "null" -> FALSE
      [] x.t = "str"  -> x.v # ""
      [] x.t = "num"  -> x.v # 0
      [] OTHER        -> TRUE

Digits == "0123456789"
IsDigit(c) == IndexIn(c, Digits) > 0
Digit(c) == IndexIn(c, Digits) - 1

RECURSIVE ParseNat(_)
\* The value of a string of decimal digits.
ParseNat(s) ==
    IF Len(s) = 0 THEN 0
    ELSE 10 * ParseNat(SubSeq(s, 1, Len(s) - 1)) + Digit(CharAt(s, Len(s)))

AllDigits(s) == Len(s) > 0 /\ \A i \in 1..Len(s) : IsDigit(CharAt(s, i))

----------------------------------------------------------------------------
(* jira_sprint_kpi.py: module constants. *)

max_results == 100
DONE_STATUS_CATEGORIES == {"done"}

----------------------------------------------------------------------------
(* jira_sprint_kpi.py: the per-issue accessors. *)

\* A variant without the emailAddress fallback.
get_assignee_name_nofallback(issue) ==
    IF issue.assignee.t = "null" THEN "Unassigned"
    ELSE IF Truthy(issue.assignee.displayName) THEN issue.assignee.displayName.v
    ELSE "Unknown"

\* assignee.get("displayName") or assignee.get("emailAddress") or "Unknown"
get_assignee_name(issue) ==
    IF issue.assignee.t = "null" THEN "Unassigned"
    ELSE IF Truthy(issue.assignee.displayName) THEN issue.assignee.displayName.v
    ELSE IF Truthy(issue.assignee.emailAddress) THEN issue.assignee.emailAddress.v
    ELSE "Unknown"

\* status_category.get("key", "").lower(); statusKey is Null when status,
\* statusCategory or key is missing.
get_status_category(issue) ==
    IF issue.statusKey.t = "null" THEN "" ELSE Lower(issue.statusKey.v)

\* issue_type.get("name", "Unknown")
get_issue_type(issue) ==
    IF issue.typeName.t = "null" THEN "Unknown" ELSE issue.typeName.v

\* float(sp), 0.0 for None and for what float() rejects.
get_story_points(issue) ==
    LET sp == issue.sp
    IN  CASE sp.t = "null" -> 0
          [] sp.t = "num"  -> sp.v
          [] sp.t = "str"  -> IF AllDigits(sp.v) THEN ParseNat(sp.v) ELSE 0
          [] OTHER         -> 0

\* str.replace('Z', '+00:00') on the zone suffix of a timestamp.
ReplaceZ(zone) == IF zone = "Z" THEN "+00:00" ELSE zone

\* datetime.fromisoformat: is the datetime aware, and its UTC offset in hours.
IsAware(zone) == zone # ""
OffsetHours(zone) ==
    IF zone = "" THEN 0
    ELSE LET h == ParseNat(SubSeq(zone, 2, 3))
         IN  IF CharAt(zone, 1) = "-" THEN 0 - h ELSE h

\* datetime.fromisoformat(x.replace('Z', '+00:00')): the parsed datetime, or
\* the exception raised (AttributeError: not a str; ValueError: not ISO).
ParseTimestamp(x) ==
    CASE x.t = "iso" -> [ok |-> TRUE, aware |-> IsAware(ReplaceZ(x.zone)),
                         wall |-> x.wall, offset |-> OffsetHours(ReplaceZ(x.zone))]
      [] OTHER       -> [ok |-> FALSE, aware |-> FALSE, wall |-> 0, offset |-> 0]

\* resolved_dt - created_dt, in hours (both aware: difference of instants;
\* both naive: difference of wall-clock times).
DeltaHours(c, r) ==
    IF c.aware THEN (r.wall - r.offset) - (c.wall - c.offset) ELSE r.wall - c.wall

\* A variant that truncates to the tenth below instead of rounding.
get_cycle_time_days_truncating(issue) ==
    LET created == issue.created
        resolved == issue.resolutiondate
    IN  IF ~Truthy(created) \/ ~Truthy(resolved) THEN 0
        ELSE LET c == ParseTimestamp(created)
                 r == ParseTimestamp(resolved)
             IN  IF ~c.ok \/ ~r.ok THEN 0
                 ELSE IF c.aware # r.aware THEN 0
                 ELSE (5 * DeltaHours(c, r)) \div 12

\* The result in tenths of a day: round(delta.total_seconds() / 86400, 1).
\* A tie of round() falls on h = 6 (mod 12) hours, a multiple of a quarter day,
\* which the float holds exactly, so the tie goes to the even tenth.
get_cycle_time_days(issue) ==
    LET created == issue.created
        resolved == issue.resolutiondate
    IN  IF ~Truthy(created) \/ ~Truthy(resolved) THEN 0
        ELSE LET c == ParseTimestamp(created)
                 r == ParseTimestamp(resolved)
             IN  IF ~c.ok \/ ~r.ok THEN 0            \* ValueError, AttributeError
                 ELSE IF c.aware # r.aware THEN 0    \* TypeError on subtraction
                 ELSE RoundHalfEven(5 * DeltaHours(c, r), 12)

----------------------------------------------------------------------------
(* The issues a sprint may hold. *)

Issue(assignee, statusKey, typeName, sp, created, resolutiondate) ==
    [key |-> 0, assignee |-> assignee, statusKey |-> statusKey,
     typeName |-> typeName, sp |-> sp, created |-> created,
     resolutiondate |-> resolutiondate]

IssuePool == <<
    Issue(User(Str("Alice"), Str("alice@example.com")), Str("done"), Str("Story"),
          Num(3), Iso(0, "Z"), Iso(48, "Z")),
    Issue(User(Str("Alice"), Null), Str("new"), Str("Bug"),
          Num(5), Iso(0, "Z"), Null),
    Issue(Null, Str("Done"), Str("Task"),
          Num(2), Iso(0, "+02:00"), Iso(7, "Z")),
    Issue(User(Str(""), Str("bob@example.com")), Str("done"), Str("bug"),
          Str("8"), Iso(0, "Z"), Iso(48, "")),
    Issue(User(Null, Null), Str("done"), Null,
          Str("abc"), Iso(24, "-05:00"), Iso(0, "-05:00")),
    Issue(User(Str("Unassigned"), Null), Str("done"), Str("Story"),
          Num(1), Iso(0, ""), Iso(6, "")),
    Issue(User(Str("alice"), Null), Str("indeterminate"), Str("Story"),
          Null, Iso(0, "Z"), Iso(24, "Z")),
    Issue(User(Str("Alice"), Null), Null, Str("Bug"),
          Num(1), Str("yesterday"), Iso(24, "Z")) >>

\* The issue key is the position in the sprint.
WithKeys(seq) == [i \in 1..Len(seq) |-> [seq[i] EXCEPT !.key = i]]

\* The sprints whose issues are drawn freely from the pool.
ShortSprints ==
    UNION {{WithKeys([i \in 1..n |-> IssuePool[f[i]]]) :
              f \in [1..n -> 1..Len(IssuePool)]} : n \in 0..MaxIssues}

\* Sprints longer than a page: totals around the multiples of max_results.
LongTotals == {p * max_results + d : p \in 1..MaxPages, d \in {-1, 0, 1}}
LongSprints ==
    {WithKeys([i \in 1..n |-> IssuePool[IF i % 2 = 1 THEN 1 ELSE 3]]) : n \in LongTotals}

Sprints == ShortSprints \cup LongSprints

\* The page sizes a server is configured to return at most.
ServerCaps == {1, 50, max_results}

----------------------------------------------------------------------------
(* jira_sprint_kpi.py: ensure_config. *)

ConfigNames == {"JIRA_BASE_URL", "JIRA_EMAIL", "JIRA_API_TOKEN", "JIRA_STORY_POINTS_FIELD"}
\* os.getenv gives None (unset), "" (set but empty) or the value.
ConfigValues == {Null, Str(""), Str("set")}

\* The names ensure_config collects in missing ("if not X").
Missing(e) == {n \in ConfigNames : ~Truthy(e[n])}

\* A weaker check that only looks for unset variables.
ConfigIncomplete_unset_only(e) == \E n \in ConfigNames : e[n].t = "null"

\* if missing:
ConfigIncomplete(e) == Missing(e) # {}

----------------------------------------------------------------------------
(* jira_sprint_kpi.py: fetch_issues_for_sprint, one loop iteration. *)

\* The page the server returns for startAt / maxResults.
ServerPage(sp, cap, startAt, maxResults) ==
    SubSeq(sp, startAt + 1, Min(Len(sp), startAt + Min(maxResults, cap)))

\* A variant that never advances.
NextStartAt_same(s) == s

\* start_at += max_results
NextStartAt(s) == s + max_results

\* if start_at >= total: break
LoopEnds(s, t) == s >= t

\* The GET succeeds.  The first response reveals the sprint and the page cap
\* of the server; they stay the same for the rest of the run.
FetchPage ==
    /\ prog = "kpi" /\ pc = "fetch"
    /\ \E sp \in (IF known THEN {sprint} ELSE Sprints),
          cap \in (IF known THEN {serverCap} ELSE ServerCaps) :
          /\ known' = TRUE
          /\ sprint' = sp
          /\ serverCap' = cap
          /\ requests' = Append(requests, start_at)
          /\ issues' = issues \o ServerPage(sp, cap, start_at, max_results)
          /\ total' = Len(sp)
          /\ start_at' = NextStartAt(start_at)
          /\ pc' = IF LoopEnds(start_at', total') THEN "compute" ELSE "fetch"
    /\ UNCHANGED <<prog, env, exitStatus, failed, metrics, processed, locals,
                   sprint_totals, csv>>
    /\ UNCHANGED detVars

\* The GET fails and the same page is asked for again.
FetchPageFails_retry ==
    /\ prog = "kpi" /\ pc = "fetch"
    /\ requests' = Append(requests, start_at)
    /\ failed' = TRUE
    /\ UNCHANGED <<prog, env, pc, exitStatus, known, sprint, serverCap, start_at,
                   total, issues, metrics, processed, locals, sprint_totals, csv>>
    /\ UNCHANGED detVars

\* The GET fails: raise_for_status raises, nothing catches it, main ends.
FetchPageFails ==
    /\ prog = "kpi" /\ pc = "fetch"
    /\ requests' = Append(requests, start_at)
    /\ failed' = TRUE
    /\ pc' = "raised"
    /\ exitStatus' = 1
    /\ UNCHANGED <<prog, env, known, sprint, serverCap, start_at, total, issues,
                   metrics, processed, locals, sprint_totals, csv>>
    /\ UNCHANGED detVars

----------------------------------------------------------------------------
(* jira_sprint_kpi.py: compute_metrics, one loop iteration. *)

\* The value the defaultdict creates for a new assignee.
NewBucket(name) ==
    [name |-> name, total_issues |-> 0, completed_issues |-> 0,
     total_story_points |-> 0, completed_story_points |-> 0,
     issue_type_counts |-> <<>>, bug_count |-> 0, story_count |-> 0,
     cycle_times |-> <<>>, story_points_list |-> <<>>]

HasBucket(ms, name) == \E i \in 1..Len(ms) : ms[i].name = name
BucketIndex(ms, name) == CHOOSE i \in 1..Len(ms) : ms[i].name = name

\* A variant that assigns 1 instead of adding 1.
Incr_assign(f, k) == IF k \in DOMAIN f THEN [f EXCEPT ![k] = 1] ELSE f @@ (k :> 1)

\* issue_type_counts[issue_type] += 1 on a defaultdict(int)
Incr(f, k) == IF k \in DOMAIN f THEN [f EXCEPT ![k] = @ + 1] ELSE f @@ (k :> 1)

\* A variant that tracks the cycle time of every issue.
TrackCycleTime_any_status(status_cat, cycle_time) == cycle_time > 0

\* if status_cat in DONE_STATUS_CATEGORIES: ... if cycle_time > 0: append
TrackCycleTime(status_cat, cycle_time) ==
    status_cat \in DONE_STATUS_CATEGORIES /\ cycle_time > 0

\* The body of the loop applied to the issue's bucket m.
UpdateBucket(m, issue) ==
    LET status_cat == get_status_category(issue)
        issue_type == get_issue_type(issue)
        story_points == get_story_points(issue)
        cycle_time == get_cycle_time_days(issue)
        done == status_cat \in DONE_STATUS_CATEGORIES
    IN  [m EXCEPT
            !.total_issues = @ + 1,
            !.total_story_points = @ + story_points,
            !.issue_type_counts = Incr(@, issue_type),
            !.story_points_list = Append(@, story_points),
            !.bug_count = IF Lower(issue_type) = "bug" THEN @ + 1 ELSE @,
            !.story_count = IF Lower(issue_type) # "bug" /\ Lower(issue_type) = "story"
                            THEN @ + 1 ELSE @,
            !.completed_issues = IF done THEN @ + 1 ELSE @,
            !.completed_story_points = IF done THEN @ + story_points ELSE @,
            !.cycle_times = IF TrackCycleTime(status_cat, cycle_time)
                            THEN Append(@, cycle_time) ELSE @]

\* What the loop binds before it touches the bucket.
Locals(issue) ==
    [assignee |-> get_assignee_name(issue),
     status_cat |-> get_status_category(issue),
     issue_type |-> get_issue_type(issue),
     story_points |-> get_story_points(issue),
     cycle_time |-> get_cycle_time_days(issue)]

NoLocals ==
    [assignee |-> "", status_cat |-> "", issue_type |-> "", story_points |-> 0,
     cycle_time |-> 0]

\* m = metrics[assignee] followed by the updates of m.
AddIssue(ms, issue) ==
    LET assignee == get_assignee_name(issue)
        withBucket == IF HasBucket(ms, assignee) THEN ms
                      ELSE Append(ms, NewBucket(assignee))
        i == BucketIndex(withBucket, assignee)
    IN  [withBucket EXCEPT ![i] = UpdateBucket(@, issue)]

ComputeStep ==
    /\ prog = "kpi" /\ pc = "compute"
    /\ processed < Len(issues)
    /\ metrics' = AddIssue(metrics, issues[processed + 1])
    /\ locals' = Locals(issues[processed + 1])
    /\ processed' = processed + 1
    /\ UNCHANGED <<prog, env, pc, exitStatus, known, sprint, serverCap, start_at,
                   total, issues, requests, failed, sprint_totals, csv>>
    /\ UNCHANGED detVars

----------------------------------------------------------------------------
(* jira_sprint_kpi.py: compute_sprint_totals. *)

EmptyTotals ==
    [total_issues |-> 0, completed_issues |-> 0, total_story_points |-> 0,
     completed_story_points |-> 0, total_bugs |-> 0, total_stories |-> 0,
     all_cycle_times |-> <<>>, all_story_points |-> <<>>,
     assignee_story_points |-> <<>>]

\* A variant that skips nobody.
SkipForTeam_never(assignee) == FALSE

\* if assignee == "Unassigned": continue
SkipForTeam(assignee) == assignee = "Unassigned"

\* One iteration of the loop over metrics.items().
AddToTotals(totals, m) ==
    IF SkipForTeam(m.name) THEN totals
    ELSE [totals EXCEPT
            !.total_issues = @ + m.total_issues,
            !.completed_issues = @ + m.completed_issues,
            !.total_story_points = @ + m.total_story_points,
            !.completed_story_points = @ + m.completed_story_points,
            !.total_bugs = @ + m.bug_count,
            !.total_stories = @ + m.story_count,
            !.all_cycle_times = @ \o m.cycle_times,
            !.all_story_points = @ \o m.story_points_list,
            !.assignee_story_points = IF m.total_story_points > 0
                                      THEN Append(@, m.total_story_points) ELSE @]

RECURSIVE compute_sprint_totals(_)
compute_sprint_totals(ms) ==
    IF Len(ms) = 0 THEN EmptyTotals
    ELSE AddToTotals(compute_sprint_totals(SubSeq(ms, 1, Len(ms) - 1)), ms[Len(ms)])

----------------------------------------------------------------------------
(* jira_sprint_kpi.py: write_csv.  The file is modelled by its assignee     *)
(* rows and the summary rows on issues, story points, velocity and the     *)
(* bug-to-story ratio; the averaged columns and the workload-distribution  *)
(* rows are not tracked.  Percentages are in tenths of a percent.          *)

\* round(100.0 * part / whole, 1) if whole > 0 else 0.0
Pct(part, whole) == IF whole > 0 THEN RoundHalfEven(1000 * part, whole) ELSE 0

\* sorted(metrics.items(), key=lambda x: x[0].lower()); the sort is stable.
InsertSorted(sorted, b) ==
    LET pos == Cardinality({i \in 1..Len(sorted) :
                              ~StrLess(Lower(b.name), Lower(sorted[i].name))})
    IN  SubSeq(sorted, 1, pos) \o <<b>> \o SubSeq(sorted, pos + 1, Len(sorted))

RECURSIVE SortedByAssignee(_)
SortedByAssignee(ms) ==
    IF Len(ms) = 0 THEN <<>>
    ELSE InsertSorted(SortedByAssignee(SubSeq(ms, 1, Len(ms) - 1)), ms[Len(ms)])

\* sorted(all_issue_types)
RECURSIVE SortedStrings(_)
SortedStrings(S) ==
    IF S = {} THEN <<>>
    ELSE LET least == CHOOSE x \in S : \A y \in S \ {x} : StrLess(x, y)
         IN  <<least>> \o SortedStrings(S \ {least})

AllIssueTypes(ms) == UNION {DOMAIN ms[i].issue_type_counts : i \in 1..Len(ms)}

\* The row written for one assignee.
Row(m, types) ==
    [Assignee |-> m.name,
     TotalIssues |-> m.total_issues,
     CompletedIssues |-> m.completed_issues,
     CompletionPctIssues |-> Pct(m.completed_issues, m.total_issues),
     TotalStoryPoints |-> m.total_story_points,
     CompletedStoryPoints |-> m.completed_story_points,
     CompletionPctStoryPoints |-> Pct(m.completed_story_points, m.total_story_points),
     BugRatio |-> Pct(m.bug_count, m.total_issues),
     IssuesOfType |-> [t \in types |->
                         IF t \in DOMAIN m.issue_type_counts
                         THEN m.issue_type_counts[t] ELSE 0]]

\* A variant that reports all story points, completed or not.
TeamVelocity_total_points(totals) == totals.total_story_points

\* team_velocity = sprint_totals["completed_story_points"]
TeamVelocity(totals) == totals.completed_story_points

\* The sprint summary rows.
Summary(totals) ==
    [completed_issues |-> totals.completed_issues,
     total_issues |-> totals.total_issues,
     sprint_completion_issues |->
         Pct(totals.completed_issues, totals.total_issues),
     completed_story_points |-> totals.completed_story_points,
     total_story_points |-> totals.total_story_points,
     sprint_completion_sp |->
         Pct(totals.completed_story_points, totals.total_story_points),
     team_velocity |-> TeamVelocity(totals),
     bug_to_story_ratio |->
         RoundHalfEven(1000 * totals.total_bugs,
                       Max(1, totals.total_stories))]

NoFile == [exists |-> FALSE, header |-> <<>>, rows |-> <<>>, summary |-> <<>>]

WrittenFile(ms) ==
    LET types == AllIssueTypes(ms)
        sorted == SortedByAssignee(ms)
    IN  [exists |-> TRUE,
         header |-> SortedStrings(types),
         rows |-> [i \in 1..Len(sorted) |-> Row(sorted[i], types)],
         summary |-> Summary(compute_sprint_totals(ms))]

\* compute_metrics returns; main calls write_csv and ends.
WriteCsv ==
    /\ prog = "kpi" /\ pc = "compute"
    /\ processed = Len(issues)
    /\ sprint_totals' = compute_sprint_totals(metrics)
    /\ csv' = WrittenFile(metrics)
    /\ pc' = "done"
    /\ exitStatus' = 0
    /\ UNCHANGED <<prog, env, known, sprint, serverCap, start_at, total, issues,
                   requests, failed, metrics, processed, locals>>
    /\ UNCHANGED detVars

----------------------------------------------------------------------------
(* jira_sprint_kpi.py: main, up to the call of fetch_issues_for_sprint.     *)
(* The command line is taken to be valid (--sprint-id given).              *)

EnsureConfig ==
    /\ prog = "kpi" /\ pc = "ensure_config"
    /\ IF ConfigIncomplete(env)
       THEN pc' = "exited" /\ exitStatus' = 1      \* sys.exit(1)
       ELSE pc' = "fetch" /\ exitStatus' = exitStatus
    /\ UNCHANGED <<prog, env, known, sprint, serverCap, start_at, total, issues,
                   requests, failed, metrics, processed, locals, sprint_totals, csv>>
    /\ UNCHANGED detVars

----------------------------------------------------------------------------
(* detect_story_points_field.py: the data the detector receives. *)

\* The fields of the issues a response may hold.
SampleIssues == {
    [summary |-> Str("Login page"), timeoriginalestimate |-> Num(3600),
     customfield_10016 |-> Num(5), customfield_10004 |-> Num(3),
     customfield_10020 |-> Str("Sprint 7")],
    [summary |-> Str("Crash on save"), customfield_10016 |-> Null,
     customfield_10020 |-> Str("Sprint 7")],
    [summary |-> Str("Spike"), customfield_10040 |-> Num(0),
     customfield_10030 |-> Null],
    [summary |-> Str("Refactor"), customfield_9999 |-> Num(2),
     customfield_10040 |-> Num(7)] }

\* The issue lists a sprint request may return (maxResults = 5).
SamplePages ==
    {<<>>} \cup {<<a>> : a \in SampleIssues}
           \cup {<<a, b>> : a \in SampleIssues, b \in SampleIssues}

Field(id, name) == [id |-> id, name |-> name]

\* The entries /rest/api/2/field may list.
FieldPool == {
    Field("customfield_10016", "Story Points"),
    Field("customfield_10004", "Story point estimate"),
    Field("customfield_10020", "Sprint"),
    Field("customfield_10030", "Original Estimate"),
    Field("customfield_10031", "Display Order"),
    Field("customfield_10050", "Story Points Chart"),
    Field("customfield_10040", "Rank"),
    Field("points", "Points") }

FieldLists ==
    UNION {[1..n -> FieldPool] : n \in 0..MaxMeta}

----------------------------------------------------------------------------
(* detect_story_points_field.py: detect_story_points_field. *)

IsCustom(field_id) == StartsWith(field_id, "customfield_")

\* isinstance(field_value, (int, float))
IsNumeric(value) == value.t = "num"

\* The first issue of the page with a positive numeric custom field, else the
\* first issue of the page.
HasPositiveCustom(fields) ==
    \E id \in DOMAIN fields :
        IsCustom(id) /\ IsNumeric(fields[id]) /\ fields[id].v > 0

PickSample(page) ==
    IF \E i \in 1..Len(page) : HasPositiveCustom(page[i])
    THEN page[CHOOSE i \in 1..Len(page) :
                 /\ HasPositiveCustom(page[i])
                 /\ \A j \in 1..(i - 1) : ~HasPositiveCustom(page[j])]
    ELSE page[1]

\* potential_fields: the ids of the numeric custom fields of the sample issue,
\* in the order of sorted(fields.items()).
PotentialFields(fields) ==
    SelectSeq(SortedStrings(DOMAIN fields),
              LAMBDA id : IsCustom(id) /\ IsNumeric(fields[id]))

\* re.match on ^story points?$, ^story point estimate$, ^points?$
ExactNames == {"story point", "story points", "story point estimate", "point", "points"}
IsExact(field_name_lower) == field_name_lower \in ExactNames

partial_patterns == {"story points", "story point", "estimate", "sp"}
exclude_terms == {"sprint", "response", "chart", "date", "time", "ready", "spec"}

IsPartial(field_name_lower) ==
    /\ \E pattern \in partial_patterns : Contains(field_name_lower, pattern)
    /\ ~\E term \in exclude_terms : Contains(field_name_lower, term)

\* exact_matches and partial_matches, built in one pass over all_fields.
ExactMatches(fs) ==
    SelectSeq(fs, LAMBDA f : IsCustom(f.id) /\ IsExact(Lower(f.name)))

PartialMatches(fs) ==
    SelectSeq(fs,
              LAMBDA f : IsCustom(f.id) /\ ~IsExact(Lower(f.name))
                         /\ IsPartial(Lower(f.name)))

\* A variant that prefers the numeric fields of the sample to the names.
Recommend_numeric_first(exact_matches, found_matches, potential_fields) ==
    IF Len(potential_fields) > 0 THEN potential_fields[1]
    ELSE IF Len(exact_matches) > 0 THEN exact_matches[1].id
    ELSE IF Len(found_matches) > 0 THEN found_matches[1].id
    ELSE "customfield_10016"

\* The recommendation: if exact_matches / elif found_matches /
\* elif potential_fields / else the default.
Recommend(exact_matches, found_matches, potential_fields) ==
    IF Len(exact_matches) > 0 THEN exact_matches[1].id
    ELSE IF Len(found_matches) > 0 THEN found_matches[1].id
    ELSE IF Len(potential_fields) > 0 THEN potential_fields[1]
    ELSE "customfield_10016"

\* if not all([JIRA_BASE_URL, EMAIL, API_TOKEN]): sys.exit(1)
DetectCheckConfig ==
    /\ prog = "detect" /\ dpc = "check_config"
    /\ dpc' = IF \E n \in {"JIRA_BASE_URL", "JIRA_EMAIL", "JIRA_API_TOKEN"} :
                    ~Truthy(env[n])
              THEN "exited" ELSE "sample"
    /\ UNCHANGED <<prog, dargs, sample, all_fields, drequests, dfailed, dresult>>
    /\ UNCHANGED kpiVars

\* Neither issue_key nor sprint_id: return None.
DetectNoArgs ==
    /\ prog = "detect" /\ dpc = "sample"
    /\ ~Truthy(dargs.issue_key) /\ ~Truthy(dargs.sprint_id)
    /\ dpc' = "returned" /\ dresult' = Null
    /\ UNCHANGED <<prog, dargs, sample, all_fields, drequests, dfailed>>
    /\ UNCHANGED kpiVars

\* if issue_key: GET /rest/api/2/issue/{issue_key} succeeds.
DetectFetchIssue ==
    /\ prog = "detect" /\ dpc = "sample"
    /\ Truthy(dargs.issue_key)
    /\ \E fields \in SampleIssues : sample' = fields
    /\ drequests' = Append(drequests, "issue")
    /\ dpc' = "metadata"
    /\ UNCHANGED <<prog, dargs, all_fields, dfailed, dresult>>
    /\ UNCHANGED kpiVars

\* elif sprint_id: GET /rest/agile/1.0/sprint/{sprint_id}/issue succeeds.
DetectFetchSprint ==
    /\ prog = "detect" /\ dpc = "sample"
    /\ ~Truthy(dargs.issue_key) /\ Truthy(dargs.sprint_id)
    /\ drequests' = Append(drequests, "sprint")
    /\ \E page \in SamplePages :
          IF Len(page) = 0
          THEN dpc' = "returned" /\ dresult' = Null /\ sample' = sample
          ELSE dpc' = "metadata" /\ dresult' = dresult /\ sample' = PickSample(page)
    /\ UNCHANGED <<prog, dargs, all_fields, dfailed>>
    /\ UNCHANGED kpiVars

\* The sample request raises: return None.
DetectFetchSampleFails ==
    /\ prog = "detect" /\ dpc = "sample"
    /\ Truthy(dargs.issue_key) \/ Truthy(dargs.sprint_id)
    /\ drequests' = Append(drequests,
                           IF Truthy(dargs.issue_key) THEN "issue" ELSE "sprint")
    /\ dfailed' = TRUE
    /\ dpc' = "returned" /\ dresult' = Null
    /\ UNCHANGED <<prog, dargs, sample, all_fields>>
    /\ UNCHANGED kpiVars

\* GET /rest/api/2/field succeeds: match the names and recommend.
DetectFetchMetadata ==
    /\ prog = "detect" /\ dpc = "metadata"
    /\ drequests' = Append(drequests, "field")
    /\ \E fs \in FieldLists :
          LET exact_matches == ExactMatches(fs)
              found_matches == exact_matches \o PartialMatches(fs)
          IN  /\ all_fields' = fs
              /\ dresult' = Str(Recommend(exact_matches, found_matches,
                                          PotentialFields(sample)))
    /\ dpc' = "returned"
    /\ UNCHANGED <<prog, dargs, sample, dfailed>>
    /\ UNCHANGED kpiVars

\* A variant that gives up when the metadata request raises.
DetectFetchMetadataFails_none ==
    /\ prog = "detect" /\ dpc = "metadata"
    /\ drequests' = Append(drequests, "field")
    /\ dresult' = Null
    /\ dfailed' = TRUE
    /\ dpc' = "returned"
    /\ UNCHANGED <<prog, dargs, sample, all_fields>>
    /\ UNCHANGED kpiVars

\* GET /rest/api/2/field raises: the best guess from the sample, or None.
DetectFetchMetadataFails ==
    /\ prog = "detect" /\ dpc = "metadata"
    /\ drequests' = Append(drequests, "field")
    /\ dresult' = IF Len(PotentialFields(sample)) > 0
                  THEN Str(PotentialFields(sample)[1]) ELSE Null
    /\ dfailed' = TRUE
    /\ dpc' = "returned"
    /\ UNCHANGED <<prog, dargs, sample, all_fields>>
    /\ UNCHANGED kpiVars

----------------------------------------------------------------------------
(* The runs. *)

Init ==
    /\ prog \in {"kpi", "detect"}
    /\ env \in [ConfigNames -> ConfigValues]
    /\ prog = "detect" => env["JIRA_STORY_POINTS_FIELD"] = Null  \* not read
    /\ pc = IF prog = "kpi" THEN "ensure_config" ELSE "idle"
    /\ exitStatus = -1
    /\ known = FALSE
    /\ sprint = <<>>
    /\ serverCap = 0
    /\ start_at = 0
    /\ total = 0
    /\ issues = <<>>
    /\ requests = <<>>
    /\ failed = FALSE
    /\ metrics = <<>>
    /\ processed = 0
    /\ locals = NoLocals
    /\ sprint_totals = EmptyTotals
    /\ csv = NoFile
    /\ dpc = IF prog = "detect" THEN "check_config" ELSE "idle"
    /\ dargs \in IF prog = "detect"
                 THEN [sprint_id : {Null, Num(1230)}, issue_key : {Null, Str("PROJ-123")}]
                 ELSE {[sprint_id |-> Null, issue_key |-> Null]}
    /\ sample = <<>>
    /\ all_fields = <<>>
    /\ drequests = <<>>
    /\ dfailed = FALSE
    /\ dresult = Null

Next ==
    \/ EnsureConfig
    \/ FetchPage
    \/ FetchPageFails
    \/ ComputeStep
    \/ WriteCsv
    \/ DetectCheckConfig
    \/ DetectNoArgs
    \/ DetectFetchIssue
    \/ DetectFetchSprint
    \/ DetectFetchSampleFails
    \/ DetectFetchMetadata
    \/ DetectFetchMetadataFails

Spec == Init /\ [][Next]_vars

----------------------------------------------------------------------------
(* Properties. *)

\* fetch_issues_for_sprint has returned.
Fetched == prog = "kpi" /\ pc \in {"compute", "done"}

\* ceil(a / b)
CeilDiv(a, b) == (a + b - 1) \div b

\* C1: once fetch_issues_for_sprint has returned, the list it returned holds
\* each of the T issues of the sprint exactly once, in server order, whatever
\* page size the server returned.
C1_FetchReturnsAllIssues == Fetched => issues = sprint

\* C2: the pagination loop is bounded.  The k-th request carries
\* startAt = (k - 1) * 100; once the total T is known the number of requests
\* never exceeds max(1, ceil(T / 100)); the loop is still running only while
\* fewer requests than that have been sent; and when it has ended at least
\* one request was sent.
C2_PaginationBounded ==
    prog = "kpi" =>
        /\ \A k \in 1..Len(requests) : requests[k] = (k - 1) * 100
        /\ known => /\ total = Len(sprint)
                    /\ Len(requests) <= Max(1, CeilDiv(Len(sprint), 100))
        /\ (known /\ pc = "fetch") =>
               Len(requests) < Max(1, CeilDiv(Len(sprint), 100))
        /\ Fetched => Len(requests) >= 1

\* C2 witness: a sprint of more than 200 issues was fetched with three
\* requests.
C2_Witness == Fetched /\ Len(sprint) > 200 /\ Len(requests) = 3

\* The bucket name the claim gives an issue: display name, else email
\* address, else "Unknown"; "Unassigned" when the assignee is absent.
ClaimedBucket(issue) ==
    IF issue.assignee = Null THEN "Unassigned"
    ELSE IF issue.assignee.displayName \notin {Null, Str("")}
         THEN issue.assignee.displayName.v
    ELSE IF issue.assignee.emailAddress \notin {Null, Str("")}
         THEN issue.assignee.emailAddress.v
    ELSE "Unknown"

\* C3: after any prefix of the issue list each processed issue is counted in
\* exactly one bucket, the one the claim names: bucket names are distinct,
\* every bucket counts the processed issues of its name and at least one, and
\* the counts add up to the number of issues processed.
C3_GroupedByAssignee ==
    prog = "kpi" =>
        /\ \A i, j \in 1..Len(metrics) : metrics[i].name = metrics[j].name => i = j
        /\ \A i \in 1..Len(metrics) :
              /\ metrics[i].total_issues > 0
              /\ metrics[i].total_issues =
                    Cardinality({k \in 1..processed :
                                   ClaimedBucket(issues[k]) = metrics[i].name})
        /\ \A k \in 1..processed :
              \E i \in 1..Len(metrics) : metrics[i].name = ClaimedBucket(issues[k])
        /\ SumSeq([i \in 1..Len(metrics) |-> metrics[i].total_issues]) = processed

\* C3 witness: three issues processed into two buckets, one of them named by
\* an email address.
C3_Witness ==
    /\ prog = "kpi" /\ processed = 3 /\ Len(metrics) = 2
    /\ \E i \in 1..2 : metrics[i].name = "bob@example.com"
    /\ \E i \in 1..2 : metrics[i].total_issues = 2

\* The story points of the fetched issues that are done and satisfy keep.
DonePoints(seq, keep(_)) ==
    SumSeq([k \in 1..Len(seq) |->
               IF get_status_category(seq[k]) = "done" /\ keep(seq[k])
               THEN get_story_points(seq[k]) ELSE 0])

\* C4 as stated: the "Team Velocity (Completed SP)" value of the file is the
\* sum of the story points of all fetched issues whose status category is
\* "done".
C4_VelocityIsAllCompletedPoints ==
    (prog = "kpi" /\ csv.exists) =>
        csv.summary.team_velocity = DonePoints(issues, LAMBDA i : TRUE)

\* C4 as amended: the "Team Velocity (Completed SP)" value of the file is the
\* sum of the story points of the fetched issues whose status category is
\* "done" and whose bucket is not "Unassigned".
C4_VelocityIsAssignedCompletedPoints ==
    (prog = "kpi" /\ csv.exists) =>
        csv.summary.team_velocity =
            DonePoints(issues, LAMBDA i : ClaimedBucket(i) # "Unassigned")

\* C4 witness: a file was written for a sprint with a done issue that has
\* story points and no assignee, next to done issues that count.
C4_Witness ==
    /\ prog = "kpi" /\ csv.exists
    /\ csv.summary.team_velocity > 0
    /\ \E k \in 1..Len(issues) :
          /\ issues[k].assignee = Null
          /\ get_status_category(issues[k]) = "done"
          /\ get_story_points(issues[k]) > 0

\* C5: no page is requested twice; a failed request ends the run with the
\* error, with no metrics computed and no file; and a file exists only after
\* the loop has run to its end with every request answered.
C5_RetryFreeAndFailuresSurface ==
    prog = "kpi" =>
        /\ \A i, j \in 1..Len(requests) : requests[i] = requests[j] => i = j
        /\ failed => /\ pc = "raised" /\ exitStatus = 1
                     /\ metrics = <<>> /\ processed = 0
                     /\ ~csv.exists
                     /\ ~ENABLED Next
        /\ pc = "raised" => failed
        /\ csv.exists => /\ ~failed /\ known
                         /\ Len(requests) >= 1
                         /\ start_at >= total
                         /\ processed = Len(issues)

\* C5 witness: the second page request failed after the first page had been
\* received.
C5_Witness ==
    prog = "kpi" /\ failed /\ Len(requests) = 2 /\ Len(issues) > 0

\* The elapsed hours between two timestamps that parse (a timestamp without
\* an offset read as UTC).
ElapsedHours(created, resolved) ==
    (resolved.wall - OffsetHours(ReplaceZ(resolved.zone)))
    - (created.wall - OffsetHours(ReplaceZ(created.zone)))

\* t tenths of a day is h hours rounded to one decimal of a day.
IsRoundedDays(t, h) == 24 * t - 10 * h <= 12 /\ 10 * h - 24 * t <= 12

BothParse(issue) == issue.created.t = "iso" /\ issue.resolutiondate.t = "iso"
SameAwareness(issue) == (issue.created.zone = "") = (issue.resolutiondate.zone = "")

SettingMissing == \E n \in ConfigNames : env[n] \in {Null, Str("")}

\* C8: with a setting unset or empty the run ends in ensure_config with exit
\* status 1, no request sent and no file created; with all four set
\* ensure_config returns; and nothing is sent or written before the check.
C8_ConfigCheckedFirst ==
    prog = "kpi" =>
        /\ pc = "ensure_config" => requests = <<>> /\ ~csv.exists
        /\ (SettingMissing /\ pc # "ensure_config") =>
               /\ pc = "exited" /\ exitStatus = 1
               /\ requests = <<>> /\ ~csv.exists
        /\ ~SettingMissing => pc # "exited"

\* C8 witness: the run ended in ensure_config although no setting was unset:
\* one was set to the empty string.
C8_Witness ==
    /\ prog = "kpi" /\ pc = "exited"
    /\ \A n \in ConfigNames : env[n] # Null

\* The sum of f over the buckets other than "Unassigned".
TeamSum(ms, f(_)) ==
    SumSeq([i \in 1..Len(ms) |-> IF ms[i].name # "Unassigned" THEN f(ms[i]) ELSE 0])

\* C9: each sprint-wide total is the sum of the per-assignee value over the
\* buckets other than "Unassigned"; the buckets are as compute_metrics left
\* them, each with a row of its own in the file, "Unassigned" included.
C9_TotalsSkipUnassigned ==
    (prog = "kpi" /\ csv.exists) =>
        /\ sprint_totals.total_issues = TeamSum(metrics, LAMBDA m : m.total_issues)
        /\ sprint_totals.completed_issues =
               TeamSum(metrics, LAMBDA m : m.completed_issues)
        /\ sprint_totals.total_story_points =
               TeamSum(metrics, LAMBDA m : m.total_story_points)
        /\ sprint_totals.completed_story_points =
               TeamSum(metrics, LAMBDA m : m.completed_story_points)
        /\ sprint_totals.total_bugs = TeamSum(metrics, LAMBDA m : m.bug_count)
        /\ sprint_totals.total_stories = TeamSum(metrics, LAMBDA m : m.story_count)
        /\ csv.summary.total_issues = sprint_totals.total_issues
        /\ csv.summary.completed_issues = sprint_totals.completed_issues
        /\ Len(csv.rows) = Len(metrics)
        /\ \A i \in 1..Len(metrics) :
              /\ metrics[i].total_issues =
                    Cardinality({k \in 1..Len(issues) :
                                   ClaimedBucket(issues[k]) = metrics[i].name})
              /\ \E r \in 1..Len(csv.rows) :
                    /\ csv.rows[r].Assignee = metrics[i].name
                    /\ csv.rows[r].TotalIssues = metrics[i].total_issues
                    /\ csv.rows[r].CompletedIssues = metrics[i].completed_issues
                    /\ csv.rows[r].TotalStoryPoints = metrics[i].total_story_points

\* C9 witness: a file with a row for "Unassigned" and a row for somebody
\* else, whose issues alone make up the sprint totals.
C9_Witness ==
    /\ prog = "kpi" /\ csv.exists
    /\ \E r \in 1..Len(csv.rows) :
          csv.rows[r].Assignee = "Unassigned" /\ csv.rows[r].TotalStoryPoints > 0
    /\ sprint_totals.total_issues > 0
    /\ sprint_totals.total_issues < Len(issues)

\* The cycle times the claim expects in the bucket called name after the
\* first n issues: those of its done issues with a positive cycle time.
ExpectedCycleTimes(name, n) ==
    LET picked == SelectSeq([k \in 1..n |-> issues[k]],
                            LAMBDA i : /\ ClaimedBucket(i) = name
                                       /\ get_status_category(i) = "done"
                                       /\ get_cycle_time_days(i) > 0)
    IN  [k \in 1..Len(picked) |-> get_cycle_time_days(picked[k])]

\* C10: a bucket's cycle_times holds the cycle time of exactly those of its
\* processed issues that are done and have a positive cycle time; so it is no
\* longer than completed_issues and every entry is positive.
C10_CycleTimesOnlyForCompleted ==
    prog = "kpi" =>
        \A i \in 1..Len(metrics) :
            /\ metrics[i].cycle_times = ExpectedCycleTimes(metrics[i].name, processed)
            /\ Len(metrics[i].cycle_times) <= metrics[i].completed_issues
            /\ \A k \in 1..Len(metrics[i].cycle_times) : metrics[i].cycle_times[k] > 0

\* C10 witness: after three issues one bucket has completed an issue without
\* recording a time (its cycle time was not positive), another has recorded
\* one, and the last issue handled took a positive time but is not done.
C10_Witness ==
    /\ prog = "kpi" /\ processed = 3
    /\ locals.status_cat # "done" /\ locals.cycle_time > 0
    /\ \E i \in 1..Len(metrics) :
          metrics[i].completed_issues = 1 /\ Len(metrics[i].cycle_times) = 0
    /\ \E i \in 1..Len(metrics) : Len(metrics[i].cycle_times) = 1

\* The detector received the field metadata and returned.
MetadataReceived ==
    prog = "detect" /\ dpc = "returned" /\ ~dfailed /\ Len(drequests) = 2

\* The positions of the custom fields of the metadata whose lower-cased name
\* is one of the exact story-points names, and of those whose name contains
\* a partial pattern and no excluded term.
CustomIdx == {i \in 1..Len(all_fields) : StartsWith(all_fields[i].id, "customfield_")}
ExactIdx ==
    {i \in CustomIdx :
        Lower(all_fields[i].name) \in
            {"story point", "story points", "story point estimate", "point", "points"}}
PartialIdx ==
    {i \in CustomIdx :
        /\ \E p \in {"story points", "story point", "estimate", "sp"} :
              Contains(Lower(all_fields[i].name), p)
        /\ \A x \in {"sprint", "response", "chart", "date", "time", "ready", "spec"} :
              ~Contains(Lower(all_fields[i].name), x)}
\* The numeric custom fields of the sample issue.
NumericIds == {id \in DOMAIN sample : StartsWith(id, "customfield_") /\ sample[id].t = "num"}

First(S) == CHOOSE i \in S : \A j \in S : i <= j
LeastId(S) == CHOOSE a \in S : \A b \in S \ {a} : StrLess(a, b)

\* C6: with the sample issue and the metadata both received, the detector
\* returns the first exact match if there is one, else the first partial
\* match without an excluded term, else the first numeric custom field of the
\* sample in sorted id order, else "customfield_10016".
C6_RankedRecommendation ==
    MetadataReceived =>
        dresult = Str(IF ExactIdx # {} THEN all_fields[First(ExactIdx)].id
                      ELSE IF PartialIdx # {} THEN all_fields[First(PartialIdx)].id
                      ELSE IF NumericIds # {} THEN LeastId(NumericIds)
                      ELSE "customfield_10016")

\* C6 witness: no exact match, the first custom field of the metadata is
\* excluded, a later one matches partially and is returned although the
\* sample issue has numeric custom fields.
C6_Witness ==
    /\ MetadataReceived
    /\ ExactIdx = {} /\ PartialIdx # {} /\ NumericIds # {}
    /\ First(PartialIdx) > 1 /\ 1 \in CustomIdx
    /\ dresult = Str(all_fields[First(PartialIdx)].id)
    /\ dresult # Str(LeastId(NumericIds))

\* The detector holds a sample issue: its sample request was answered with
\* at least one issue.
SampleObtained == sample # <<>>

\* C11: the detector sends the sample request at most once and the metadata
\* request at most once, the metadata request only after a sample issue was
\* obtained.  Without a sample issue (the request failed, the sprint was
\* empty, or no argument was given, in which case nothing is sent) it returns
\* None and the metadata is never requested.  With a sample issue but a failed
\* metadata request it returns the first numeric custom field of the sample
\* in sorted id order, or None when the sample has none.
C11_DegradesByStage ==
    prog = "detect" =>
        /\ drequests \in {<<>>, <<"issue">>, <<"sprint">>,
                          <<"issue", "field">>, <<"sprint", "field">>}
        /\ Len(drequests) = 2 => SampleObtained
        /\ (dpc = "returned" /\ ~SampleObtained) =>
               /\ dresult = Null
               /\ Len(drequests) <= 1
        /\ (dpc = "returned" /\ dargs.issue_key \in {Null, Str("")}
                             /\ dargs.sprint_id \in {Null, Num(0)}) =>
               drequests = <<>> /\ dresult = Null
        /\ (dfailed /\ ~SampleObtained) => Len(drequests) = 1 /\ dpc = "returned"
        /\ (dfailed /\ SampleObtained) =>
               /\ dpc = "returned" /\ Len(drequests) = 2
               /\ dresult = IF NumericIds # {} THEN Str(LeastId(NumericIds)) ELSE Null

\* C11 witness: the metadata request failed and the detector returned
\* customfield_10040 of a sample that also holds the numeric customfield_9999,
\* which sorts after it as a string.
C11_Witness ==
    /\ prog = "detect" /\ dpc = "returned" /\ dfailed /\ SampleObtained
    /\ drequests = <<"sprint", "field">>
    /\ "customfield_9999" \in NumericIds
    /\ dresult = Str("customfield_10040")

\* The sum of the values of a function with a finite domain.
RECURSIVE SumValues(_)
SumValues(f) ==
    IF DOMAIN f = {} THEN 0
    ELSE LET k == CHOOSE x \in DOMAIN f : TRUE
         IN  f[k] + SumValues([x \in DOMAIN f \ {k} |-> f[x]])

\* C12: after any prefix of the issue list every bucket has
\* 0 <= completed_issues <= total_issues, bug_count + story_count <=
\* total_issues, and its issue_type_counts add up to total_issues, which is
\* the length of story_points_list; and every "Completion % (Issues)" and
\* "Bug Ratio (%)" of an assignee row of the file lies between 0 and 100.
C12_BucketCountsConsistent ==
    prog = "kpi" =>
        /\ \A i \in 1..Len(metrics) :
              LET m == metrics[i]
              IN  /\ 0 <= m.completed_issues
                  /\ m.completed_issues <= m.total_issues
                  /\ m.bug_count >= 0 /\ m.story_count >= 0
                  /\ m.bug_count + m.story_count <= m.total_issues
                  /\ SumValues(m.issue_type_counts) = m.total_issues
                  /\ Len(m.story_points_list) = m.total_issues
        /\ csv.exists =>
              \A r \in 1..Len(csv.rows) :
                  /\ 0 <= csv.rows[r].CompletionPctIssues
                  /\ csv.rows[r].CompletionPctIssues <= 1000
                  /\ 0 <= csv.rows[r].BugRatio
                  /\ csv.rows[r].BugRatio <= 1000

\* C12 witness: the file holds a row of three issues of two types, two of
\* them bugs and one of them completed: 33.3 % completion, 66.7 % bugs.
C12_Witness ==
    /\ prog = "kpi" /\ csv.exists
    /\ \E r \in 1..Len(csv.rows) :
          /\ csv.rows[r].TotalIssues = 3
          /\ csv.rows[r].CompletionPctIssues = 333
          /\ csv.rows[r].BugRatio = 667
    /\ \E i \in 1..Len(metrics) :
          /\ metrics[i].total_issues = 3
          /\ Cardinality(DOMAIN metrics[i].issue_type_counts) = 2

============================================================================
